---- MODULE Spec2Model ----
(***************************************************************************)
(* A model of the PBFT replica of src/pBFT/node.py: the per-slot quorum     *)
(* tracker (Status), the checkpoint manager (CheckPoint), the view-change   *)
(* accumulator (ViewChangeVotes) and the replica's handlers (PBFTHandler).  *)
(*                                                                         *)
(* How the source is read.  A statement that can never run without raising  *)
(* (a misspelt name, a missing call parenthesis, a misplaced indentation)   *)
(* is read as the statement it evidently stands for; the places are named   *)
(* where they are modelled.  Every statement that does run is modelled as   *)
(* it runs, also where it raises for particular inputs: the handler then    *)
(* ends at that statement and keeps the assignments made before it.         *)
(*                                                                         *)
(* A handler runs from its entry to its first network await without         *)
(* giving up the event loop; the handlers below assign all shared state     *)
(* before their first await, so each handler is one action.  A message      *)
(* carries one slot, as every message built by the source does.             *)
(***************************************************************************)
EXTENDS Integers, Sequences, FiniteSets, TLC

VARIABLES
    status_by_slot,     \* PBFTHandler._status_by_slot, per replica
    last_commit_slot,   \* PBFTHandler._last_commit_slot
    next_propose_slot,  \* PBFTHandler._next_propose_slot
    follow_view,        \* PBFTHandler._follow_view (its view number)
    session,            \* PBFTHandler._session is not None
    next_slot,          \* CheckPoint.next_slot
    checkpoint,         \* CheckPoint.checkpoint
    received_votes_by_ckpt, \* CheckPoint._received_votes_by_ckpt
    replies,            \* REPLY posts per replica and slot (to the client)
    out,                \* the posts made by the handler that ran last
    ev,                 \* the message handled last
    net,                \* posts in flight between the replicas
    has_quorum,         \* the last result of _check_majority, per kind
    vc_from_nodes,      \* ViewChangeVotes.from_nodes
    vc_prepare_certificate_by_slot, \* ViewChangeVotes.prepare_certificate_by_slot
    vc_votes,           \* the view-change votes received so far
    ckpt_votes,         \* the checkpoint votes received so far
    steps,              \* handler runs so far (bounds the exploration)
    client,             \* the Client of src/pBFT/client.py
    certificate,        \* one Status.Certificate and the View it holds
    clock,              \* time.time()
    returned            \* the value the last call of set_view returned

vars == <<status_by_slot, last_commit_slot, next_propose_slot, follow_view,
          session, next_slot, checkpoint, received_votes_by_ckpt, replies,
          out, ev, net, has_quorum, vc_from_nodes,
          vc_prepare_certificate_by_slot, vc_votes, ckpt_votes, steps,
          client, certificate, clock, returned>>

\* The client and the View object: no handler of a replica assigns them.
cvars == <<client, certificate, clock, returned>>

----------------------------------------------------------------------------
(* Configuration and input domains *)

NumNodes == 4
F == (NumNodes - 1) \div 3
Nodes == 0 .. NumNodes - 1
CheckpointInterval == 1

Proposals == {"a", "b"}
Views == {0, 1}
Slots == 0 .. 2 * CheckpointInterval
Keys == Views \X Proposals

PREPARE == "prepare"
COMMIT == "commit"
REPLY == "reply"

MaxSteps == 6

----------------------------------------------------------------------------
(* Status: the record of one slot *)

NoCert == [view |-> -1, proposal |-> "none"]
Certificate(view, proposal) == [view |-> view, proposal |-> proposal]

NoStatus ==
    [present |-> FALSE, request |-> "0",
     prepare_msg |-> [k \in Keys |-> {}], prepare_certificate |-> NoCert,
     commit_msg |-> [k \in Keys |-> {}], commit_certificate |-> NoCert,
     is_committed |-> FALSE]

Status == [NoStatus EXCEPT !.present = TRUE]

\* _update_sequence with the key made of the proposal alone.
UpdateSequenceKeyedByProposal(st, msg_type, view, proposal, from_node) ==
    IF msg_type = PREPARE
    THEN [st EXCEPT !.prepare_msg =
             [k \in Keys |-> IF k[2] = proposal THEN @[k] \cup {from_node} ELSE @[k]]]
    ELSE IF msg_type = COMMIT
    THEN [st EXCEPT !.commit_msg =
             [k \in Keys |-> IF k[2] = proposal THEN @[k] \cup {from_node} ELSE @[k]]]
    ELSE st

\* _update_sequence with a sender that is already recorded taken out of the
\* set again (from_nodes ^= {from_node} for from_nodes.add(from_node)).
UpdateSequenceToggling(st, msg_type, view, proposal, from_node) ==
    LET key == <<view, proposal>>
        Toggle(nodes) == IF from_node \in nodes THEN nodes \ {from_node}
                         ELSE nodes \cup {from_node}
    IN IF msg_type = PREPARE
       THEN [st EXCEPT !.prepare_msg[key] = Toggle(@)]
       ELSE IF msg_type = COMMIT
       THEN [st EXCEPT !.commit_msg[key] = Toggle(@)]
       ELSE st

\* The key is (view number, md5 of the canonical JSON of the proposal): equal
\* contents give equal keys.  A key is in the dict iff its from_nodes is not
\* empty, since the element is created and filled in the same call.
UpdateSequence(st, msg_type, view, proposal, from_node) ==
    LET key == <<view, proposal>> IN
    IF msg_type = PREPARE
    THEN [st EXCEPT !.prepare_msg[key] = @ \cup {from_node}]
    ELSE IF msg_type = COMMIT
    THEN [st EXCEPT !.commit_msg[key] = @ \cup {from_node}]
    ELSE st

\* _check_majority with > where the source has >=.
CheckMajorityStrict(st, msg_type) ==
    IF msg_type = PREPARE
    THEN \/ st.prepare_certificate # NoCert
         \/ \E key \in Keys : Cardinality(st.prepare_msg[key]) > 2 * F + 1
    ELSE IF msg_type = COMMIT
    THEN \/ st.commit_certificate # NoCert
         \/ \E key \in Keys : Cardinality(st.commit_msg[key]) > 2 * F + 1
    ELSE FALSE

CheckMajority(st, msg_type) ==
    IF msg_type = PREPARE
    THEN \/ st.prepare_certificate # NoCert
         \/ \E key \in Keys : Cardinality(st.prepare_msg[key]) >= 2 * F + 1
    ELSE IF msg_type = COMMIT
    THEN \/ st.commit_certificate # NoCert
         \/ \E key \in Keys : Cardinality(st.commit_msg[key]) >= 2 * F + 1
    ELSE FALSE

----------------------------------------------------------------------------
(* CheckPoint *)

\* Checkpoint candidates: lists of commit decisions (a decision is the
\* (id, data) of a proposal, here the proposal itself).
Ckpts == {<<>>, <<"a">>, <<"b">>, <<"a", "b">>}
NextSlots == 0 .. 2 * CheckpointInterval + 1

NoVotes == [present |-> FALSE, next_slot |-> 0, from_nodes |-> {}]
ReceiveVotes(ckpt, ns) == [present |-> TRUE, next_slot |-> ns, from_nodes |-> {}]

\* get_commit_upperbound is indented under ReceiveVotes in the source (line
\* 178) but is called on the CheckPoint and reads the CheckPoint's fields.
GetCommitUpperbound(r) == next_slot[r] + 2 * CheckpointInterval

\* The records that the loop of receive_vote (lines 217-221) adopts.  Only
\* the record that just got its vote can newly satisfy the test: a record
\* that has a quorum satisfied it, or failed it for good, when the quorum
\* formed, because next_slot never decreases.
Adoptable(r, rv) ==
    {c \in Ckpts : /\ rv[c].present
                   /\ rv[c].next_slot > next_slot[r]
                   /\ Cardinality(rv[c].from_nodes) >= 2 * F + 1}

\* CheckPoint._post (lines 242-254) stores the new client session in
\* self.session and posts through self._session, which stays None: every post
\* raises inside the try and is logged, so nothing is sent.
CheckPointPost(msg) == {}

RECEIVE_CKPT_VOTE == "receive_ckpt_vote"

\* The json_data of _broadcast_checkpoint (lines 268-273).
CheckpointVoteMsg(r, ckpt) ==
    [type |-> "vote", node_index |-> r,
     next_slot |-> next_slot[r] + CheckpointInterval,
     ckpt |-> ckpt]

BroadcastCheckpoint(r, ckpt) == CheckPointPost(CheckpointVoteMsg(r, ckpt))

ProposeVote(r, commit_decisions) ==
    BroadcastCheckpoint(r, checkpoint[r] \o commit_decisions)

----------------------------------------------------------------------------
(* PBFTHandler *)

\* A per-slot message.  key = "" says that the key of its 'proposal' dict is
\* the decimal text of slot; otherwise key is that key's text and int(key)
\* raises ValueError.
Msg(type, index, view, key, slot, proposal) ==
    [type |-> type, index |-> index, view |-> view, key |-> key,
     slot |-> slot, proposal |-> proposal]

\* _legal_slot without the upper bound.
LegalSlotNoUpperbound(r, slot) == ~ (slot < next_slot[r])

LegalSlot(r, slot) ==
    ~ (slot < next_slot[r] \/ slot >= GetCommitUpperbound(r))

StatusOf(r, slot) ==
    IF status_by_slot[r][slot].present THEN status_by_slot[r][slot] ELSE Status

GetCommitDecisions(r, sbs, last) ==
    [i \in 1 .. (IF last + 1 > next_slot[r] THEN last + 1 - next_slot[r] ELSE 0) |->
        sbs[next_slot[r] + i - 1].commit_certificate.proposal]


\* The state of the replicas that a handler can assign.
rvars == <<status_by_slot, last_commit_slot, next_propose_slot, follow_view,
           session, next_slot, checkpoint, received_votes_by_ckpt, replies>>

\* The tests a per-slot handler makes before it assigns anything, without the
\* comparison of the views (lines 585, 626, 674).
IgnoredWithoutViewTest(r, m) == m.key # "" \/ ~LegalSlot(r, m.slot)

\* The handler returns (or raises) before it assigns anything: the view is
\* stale, int(slot) raises ValueError, or the slot is outside the window.
Ignored(r, m) ==
    m.view < follow_view[r] \/ m.key # "" \/ ~LegalSlot(r, m.slot)

Post(cmd, msg) == [cmd |-> cmd, msg |-> msg]

IsLeader(r) == r = 0
ViewOf(r) == 0

\* get_request and preprepare: the client's REQUEST.  A replica that is not
\* the leader answers with a redirect.  The posts of a handler are given by
\* the operator next to it, over the state before the handler ran.
GetRequest(r, req) ==
    IF ~IsLeader(r)
    THEN UNCHANGED rvars
    ELSE LET this_slot == next_propose_slot[r]
             st == [StatusOf(r, this_slot) EXCEPT !.request = req]
         IN /\ next_propose_slot' = [next_propose_slot EXCEPT ![r] = this_slot + 1]
            /\ status_by_slot' = [status_by_slot EXCEPT ![r][this_slot] = st]
            /\ session' = [session EXCEPT ![r] = TRUE]
            /\ UNCHANGED <<last_commit_slot, follow_view, next_slot, checkpoint,
                           received_votes_by_ckpt, replies>>

GetRequestPosts(r, req) ==
    IF ~IsLeader(r)
    THEN {}
    ELSE {Post(PREPARE, Msg("preprepare", r, ViewOf(r), "this_slot",
                            next_propose_slot[r], req))}

\* propose: the handler of a PRE-PREPARE message.
Propose(r, m) ==
    IF Ignored(r, m)
    THEN UNCHANGED rvars
    ELSE /\ status_by_slot' = [status_by_slot EXCEPT ![r][m.slot] = StatusOf(r, m.slot)]
         /\ session' = [session EXCEPT ![r] = TRUE]
         /\ UNCHANGED <<last_commit_slot, next_propose_slot, follow_view, next_slot,
                        checkpoint, received_votes_by_ckpt, replies>>

ProposePosts(r, m) ==
    IF Ignored(r, m)
    THEN {}
    ELSE {Post(COMMIT, Msg(PREPARE, r, m.view, "slot", m.slot, m.proposal))}

\* commit: the handler of a PREPARE message.  Line 641 passes (view, type)
\* where _update_sequence takes (msg_type, view); it is read in the order of
\* line 689.
CommitMajority(r, m) ==
    CheckMajority(UpdateSequence(StatusOf(r, m.slot), m.type, m.view,
                                 m.proposal, m.index), m.type)

Commit(r, m) ==
    IF Ignored(r, m)
    THEN UNCHANGED rvars
    ELSE LET st1 == UpdateSequence(StatusOf(r, m.slot), m.type, m.view,
                                   m.proposal, m.index)
             st2 == IF CommitMajority(r, m)
                    THEN [st1 EXCEPT !.prepare_certificate =
                                         Certificate(m.view, m.proposal)]
                    ELSE st1
         IN /\ status_by_slot' = [status_by_slot EXCEPT ![r][m.slot] = st2]
            /\ session' = [session EXCEPT ![r] = session[r] \/ CommitMajority(r, m)]
            /\ UNCHANGED <<last_commit_slot, next_propose_slot, follow_view,
                           next_slot, checkpoint, received_votes_by_ckpt, replies>>

CommitPosts(r, m) ==
    IF ~Ignored(r, m) /\ CommitMajority(r, m)
    THEN {Post(COMMIT, Msg(COMMIT, r, m.view, "slot", m.slot, m.proposal))}
    ELSE {}

\* reply: the handler of a COMMIT message.
ReplyMsg(r, m) ==
    [type |-> REPLY, index |-> r, view |-> m.view, proposal |-> m.proposal]

\* The test of line 692 without its first conjunct.
SealsOverExisting(r, m) ==
    CheckMajority(UpdateSequence(StatusOf(r, m.slot), m.type, m.view,
                                 m.proposal, m.index), m.type)

\* Line 692: the slot has no commit certificate and the vote just recorded
\* gives a majority.
Seals(r, m) ==
    LET st1 == UpdateSequence(StatusOf(r, m.slot), m.type, m.view,
                              m.proposal, m.index)
    IN st1.commit_certificate = NoCert /\ CheckMajority(st1, m.type)

\* The test of line 698 without the comparison with _last_commit_slot.
ExecutesOutOfOrder(r, m) ==
    /\ ~Ignored(r, m)
    /\ SealsOverExisting(r, m)
    /\ StatusOf(r, m.slot).commit_certificate = NoCert
    /\ ~StatusOf(r, m.slot).is_committed

\* The test of line 698 taken without the test of line 692 around it.
ExecutesUnsealed(r, m) ==
    /\ ~Ignored(r, m)
    /\ last_commit_slot[r] = m.slot - 1
    /\ ~StatusOf(r, m.slot).is_committed

\* Line 698: no bubble ahead and not yet committed.
Executes(r, m) ==
    /\ ~Ignored(r, m)
    /\ Seals(r, m)
    /\ last_commit_slot[r] = m.slot - 1
    /\ ~StatusOf(r, m.slot).is_committed

Reply(r, m) ==
    IF Ignored(r, m)
    THEN UNCHANGED rvars
    ELSE LET st1 == UpdateSequence(StatusOf(r, m.slot), m.type, m.view,
                                   m.proposal, m.index)
             st2 == IF Seals(r, m)
                    THEN [st1 EXCEPT !.commit_certificate =
                                         Certificate(m.view, m.proposal)]
                    ELSE st1
             st3 == IF Executes(r, m) THEN [st2 EXCEPT !.is_committed = TRUE] ELSE st2
         IN /\ status_by_slot' = [status_by_slot EXCEPT ![r][m.slot] = st3]
            /\ last_commit_slot' =
                   IF Executes(r, m)
                   THEN [last_commit_slot EXCEPT ![r] = @ + 1]
                   ELSE last_commit_slot
            \* line 717 posts through self._session, which is None until the
            \* replica has broadcast something: the bare except then swallows
            \* the AttributeError and no REPLY leaves.
            /\ replies' =
                   IF Executes(r, m) /\ session[r]
                   THEN [replies EXCEPT ![r][m.slot] = @ + 1]
                   ELSE replies
            /\ UNCHANGED <<next_propose_slot, follow_view, session, next_slot,
                           checkpoint, received_votes_by_ckpt>>

ReplyPosts(r, m) ==
    IF Executes(r, m)
    THEN (IF (last_commit_slot[r] + 2) % CheckpointInterval = 0
          THEN ProposeVote(r, GetCommitDecisions(r,
                   [status_by_slot[r] EXCEPT ![m.slot].commit_certificate =
                                                 Certificate(m.view, m.proposal)],
                   last_commit_slot[r] + 1))
          ELSE {})
         \cup (IF session[r] THEN {Post("client", ReplyMsg(r, m))} ELSE {})
    ELSE {}

----------------------------------------------------------------------------
(* CheckPoint operations *)

\* receive_vote, reached through the handler receive_ckpt_vote.
ReceiveVote(r, v) ==
    LET rv0 == received_votes_by_ckpt[r]
        rec == IF rv0[v.ckpt].present THEN rv0[v.ckpt]
               ELSE ReceiveVotes(v.ckpt, v.next_slot)
        rv1 == [rv0 EXCEPT ![v.ckpt] =
                   [rec EXCEPT !.from_nodes = @ \cup {v.node_index}]]
        win == Adoptable(r, rv1)
    IN /\ received_votes_by_ckpt' = [received_votes_by_ckpt EXCEPT ![r] = rv1]
       /\ IF win # {}
          THEN LET c == CHOOSE c \in win :
                            \A d \in win : rv1[d].next_slot <= rv1[c].next_slot
               IN /\ next_slot' = [next_slot EXCEPT ![r] = rv1[c].next_slot]
                  /\ checkpoint' = [checkpoint EXCEPT ![r] = c]
          ELSE UNCHANGED <<next_slot, checkpoint>>
       /\ UNCHANGED <<status_by_slot, last_commit_slot, next_propose_slot,
                      follow_view, session, replies>>

\* update_checkpoint without the test of line 296.
UpdateCheckpointUnguarded(r, j) ==
    /\ next_slot' = [next_slot EXCEPT ![r] = j.next_slot]
    /\ checkpoint' = [checkpoint EXCEPT ![r] = j.ckpt]
    /\ UNCHANGED <<status_by_slot, last_commit_slot, next_propose_slot,
                   follow_view, session, received_votes_by_ckpt, replies>>

UpdateCheckpoint(r, j) ==
    /\ IF j.next_slot > next_slot[r]
       THEN /\ next_slot' = [next_slot EXCEPT ![r] = j.next_slot]
            /\ checkpoint' = [checkpoint EXCEPT ![r] = j.ckpt]
       ELSE UNCHANGED <<next_slot, checkpoint>>
    /\ UNCHANGED <<status_by_slot, last_commit_slot, next_propose_slot,
                   follow_view, session, received_votes_by_ckpt, replies>>

\* CheckPoint.receive_sync: self._next_slot (line 314) is read as next_slot,
\* the only field of that kind.
ReceiveSync(r, j) ==
    /\ IF j.next_slot > next_slot[r]
       THEN /\ next_slot' = [next_slot EXCEPT ![r] = j.next_slot]
            /\ checkpoint' = [checkpoint EXCEPT ![r] = j.ckpt]
       ELSE UNCHANGED <<next_slot, checkpoint>>
    /\ UNCHANGED <<status_by_slot, last_commit_slot, next_propose_slot,
                   follow_view, session, received_votes_by_ckpt, replies>>

----------------------------------------------------------------------------
(* The state after construction *)

----------------------------------------------------------------------------
(* View.set_view and Status.Certificate.dumps_from_dict *)

VIEW_SET_INTERVAL == 10
MaxClock == 21
ViewsIn == 0 .. 2

\* A Certificate with the fields of its View.  View.__init__ takes the time
\* of construction as the last set time.
NewCertificate(view_num, now) ==
    [view_num |-> view_num, leader |-> view_num % NumNodes,
     last_set_time |-> now, proposal |-> "0"]

\* Line 34 reads "time.time - self._last_set_time", which raises for every
\* call; it is read as time.time().
RateLimited(c, now) == now - c.last_set_time < VIEW_SET_INTERVAL

\* set_view: no statement compares the new view with the current one.
SetView(c, view, now) ==
    IF RateLimited(c, now)
    THEN c
    ELSE [c EXCEPT !.last_set_time = now, !.view_num = view,
                   !.leader = view % NumNodes]

\* The value set_view returns: False when limited; the successful path ends
\* without a return statement, so the caller gets None.
SetViewReturns(c, now) == IF RateLimited(c, now) THEN "False" ELSE "None"

\* dumps_from_dict: set_view on the certificate's view, its result dropped,
\* then the proposal.
DumpsFromDict(c, dictionary, now) ==
    [SetView(c, dictionary.view, now) EXCEPT !.proposal = dictionary.proposal]

----------------------------------------------------------------------------
(* Client (src/pBFT/client.py) *)

RetryTimes == 2
NumMessages == 2
MaxEscalations == 2

ClientKeys == {<<0, "a">>, <<1, "a">>, <<0, "b">>}

\* Client Status._update_sequence: the key is (view, md5 of the canonical
\* JSON of the proposal).
ClientUpdateSequence(reply_msgs, view, proposal, from_node) ==
    [reply_msgs EXCEPT ![<<view, proposal>>] = @ \cup {from_node}]

\* _check_succeed with the votes of all keys counted together.
CheckSucceedAnyKey(reply_msgs) ==
    Cardinality(UNION {reply_msgs[key] : key \in ClientKeys}) >= F + 1

\* Client Status._check_succeed.
CheckSucceed(reply_msgs) ==
    \E key \in ClientKeys : Cardinality(reply_msgs[key]) >= F + 1

NoReplies == [key \in ClientKeys |-> {}]

\* The client when request() has made the Event of request 0 (line 218) and
\* sleeps; _status is None until line 230.
NewClient ==
    [i |-> 0, pc |-> "sleep", accumulate_failure |-> 0, dest_ind |-> 0,
     has_status |-> FALSE, reply_msgs |-> NoReplies,
     is_request_succeed |-> FALSE,
     escalations |-> 0, vc_requests |-> [r \in Nodes |-> 0]]

\* get_reply.  A stale reply returns at line 199; with _status still None
\* line 202 raises and nothing is assigned.
GetReply(c, rep, stale) ==
    IF stale \/ ~c.has_status
    THEN c
    ELSE LET msgs == ClientUpdateSequence(c.reply_msgs, rep.view, rep.proposal,
                                          rep.index)
         IN [c EXCEPT !.reply_msgs = msgs,
                      !.is_request_succeed = @ \/ CheckSucceed(msgs)]

\* request, line 230: a new Status, then the post is awaited.  Status(self._f)
\* names a field that does not exist; it is read as self.f.
Send(c) == [c EXCEPT !.has_status = TRUE, !.reply_msgs = NoReplies, !.pc = "post"]

\* The post returned (lines 245-249): the loop of request i ends, whatever
\* replies have come.  The next request starts with line 215-218, or the
\* session is closed.
PostSucceeded(c) ==
    IF c.i + 1 < NumMessages
    THEN [c EXCEPT !.i = @ + 1, !.accumulate_failure = 0, !.dest_ind = 0,
                   !.is_request_succeed = FALSE, !.pc = "sleep"]
    ELSE [c EXCEPT !.i = @ + 1, !.pc = "done"]

\* request_view_change: n posts, every one of them to self._nodes[1].
RequestViewChange(vc_requests) ==
    [vc_requests EXCEPT ![1] = @ + NumNodes]

\* The post raised (lines 232-244).
PostFailed(c) ==
    LET c1 == [c EXCEPT !.reply_msgs = NoReplies, !.is_request_succeed = FALSE,
                        !.accumulate_failure = @ + 1]
    IN IF c1.accumulate_failure = RetryTimes
       THEN [c1 EXCEPT !.vc_requests = RequestViewChange(@),
                       !.escalations = @ + 1,
                       !.accumulate_failure = 0,
                       !.dest_ind = (@ + 1) % NumNodes,
                       !.pc = "retry"]
       ELSE c1

NoEvent == [handler |-> "none", slot |-> 0]

Init ==
    /\ status_by_slot = [r \in Nodes |-> [s \in Slots |-> NoStatus]]
    /\ last_commit_slot = [r \in Nodes |-> -1]
    /\ next_propose_slot = [r \in Nodes |-> 0]
    /\ follow_view = [r \in Nodes |-> 0]
    /\ session = [r \in Nodes |-> FALSE]
    /\ next_slot = [r \in Nodes |-> 0]
    /\ checkpoint = [r \in Nodes |-> <<>>]
    /\ received_votes_by_ckpt = [r \in Nodes |-> [c \in Ckpts |-> NoVotes]]
    /\ replies = [r \in Nodes |-> [s \in Slots |-> 0]]
    /\ out = {}
    /\ ev = NoEvent
    /\ net = {}
    /\ has_quorum = [kind \in {PREPARE, COMMIT} |-> FALSE]
    /\ vc_from_nodes = {}
    /\ vc_prepare_certificate_by_slot = [s \in Slots |-> NoCert]
    /\ vc_votes = {}
    /\ ckpt_votes = {}
    /\ steps = 0
    /\ client = NewClient
    /\ certificate = NewCertificate(0, 0)
    /\ clock = 0
    /\ returned = "none"

----------------------------------------------------------------------------
(* Spec: the commit path of one replica under arbitrary COMMIT traffic *)

\* The replica whose handlers are run.
Self == 1

\* The per-slot messages that reach it: any sender, any slot, and two
\* contents that differ in view and proposal.
KeysIn == {<<0, "a">>, <<1, "b">>}
CommitMsgs ==
    {Msg(COMMIT, i, k[1], "", s, k[2]) : i \in Nodes, k \in KeysIn, s \in Slots}
PrePrepareMsgs ==
    {Msg("preprepare", 0, k[1], "", s, k[2]) : k \in KeysIn, s \in Slots}

\* What the replica's handlers leave alone.
vcvars == <<vc_from_nodes, vc_prepare_certificate_by_slot, vc_votes, ckpt_votes>>
quiet == <<out, ev, net, has_quorum, vcvars, cvars>>

Tick == steps < MaxSteps /\ steps' = steps + 1

OnPrePrepare ==
    \E m \in PrePrepareMsgs : Propose(Self, m) /\ Tick /\ UNCHANGED quiet
OnCommit ==
    \E m \in CommitMsgs : Reply(Self, m) /\ Tick /\ UNCHANGED quiet

Next == OnPrePrepare \/ OnCommit

Spec == Init /\ [][Next]_vars

Sealed(r, s) == status_by_slot[r][s].commit_certificate # NoCert
Executed(r, s) == status_by_slot[r][s].is_committed

\* C2: a slot is executed (is_committed set, last_commit_slot advanced, REPLY
\* posted) only when it is exactly last_commit_slot + 1, so slot s + 1 is
\* never executed before slot s, in whatever order the quorums form.
C2_InOrderExecution ==
    [][\A r \in Nodes :
        /\ \A s \in Slots :
              (\/ (status_by_slot'[r][s].is_committed
                      /\ ~status_by_slot[r][s].is_committed)
               \/ replies'[r][s] # replies[r][s])
              => (s = last_commit_slot[r] + 1 /\ last_commit_slot'[r] = s)
        /\ last_commit_slot'[r] # last_commit_slot[r]
              => /\ last_commit_slot'[r] = last_commit_slot[r] + 1
                 /\ status_by_slot'[r][last_commit_slot'[r]].is_committed
                 /\ ~status_by_slot[r][last_commit_slot'[r]].is_committed
        /\ \A s \in Slots : status_by_slot'[r][s].is_committed
              => \A t \in 0 .. s : status_by_slot'[r][t].is_committed]_vars

\* Slot 1 reached its commit quorum before slot 0 was executed, and slot 0
\* was executed afterwards.
C2_Witness ==
    /\ Sealed(Self, 1) /\ ~Executed(Self, 1)
    /\ Executed(Self, 0) /\ last_commit_slot[Self] = 0

\* C9: once the commit certificate of a slot is sealed, no later message
\* changes its view or proposal.
C9_CommitCertificateImmutable ==
    [][\A r \in Nodes : \A s \in Slots :
        Sealed(r, s) => status_by_slot'[r][s].commit_certificate
                            = status_by_slot[r][s].commit_certificate]_vars

\* The certificate is sealed for one content and a whole quorum of COMMIT
\* votes for the other content has been recorded after it.
C9_Witness ==
    \E s \in Slots : \E k \in KeysIn :
        /\ Sealed(Self, s)
        /\ status_by_slot[Self][s].commit_certificate # Certificate(k[1], k[2])
        /\ Cardinality(status_by_slot[Self][s].commit_msg[k]) >= 2 * F + 1

\* C10: for every slot a replica has executed it has posted exactly one
\* REPLY, and none for a slot it has not executed.
C10_ReplyExactlyOnce ==
    \A r \in Nodes : \A s \in Slots :
        replies[r][s] = (IF Executed(r, s) THEN 1 ELSE 0)

\* What does hold: never more than one REPLY for a slot.
C10_AtMostOnce ==
    \A r \in Nodes : \A s \in Slots : replies[r][s] <= 1

----------------------------------------------------------------------------
(* FairCommitSpec: the commit path when every COMMIT message keeps arriving *)

\* Every replica's COMMIT for one content, for every slot; no bound on the
\* number of deliveries.  A message that was sent is delivered and handled
\* (the event loop runs the handler of each request it receives), and may
\* arrive again: each delivery is weakly fair.
LiveMsgs == {Msg(COMMIT, i, 0, "", s, "a") : i \in Nodes, s \in Slots}

Deliver(m) == Reply(Self, m) /\ UNCHANGED <<quiet, steps>>

NextLive == \E m \in LiveMsgs : Deliver(m)

FairCommitSpec ==
    Init /\ [][NextLive]_vars /\ \A m \in LiveMsgs : WF_vars(Deliver(m))

\* C3: when the commit certificate of slot s + 1 was sealed while slot s was
\* unexecuted and slot s has been executed since, slot s + 1 is eventually
\* executed as well.
C3_DeferredExecutionNotLost ==
    \A s \in Slots \ {2 * CheckpointInterval} :
        (Sealed(Self, s + 1) /\ Executed(Self, s)) ~> Executed(Self, s + 1)

\* The same loss as a state that no run leaves: once slot s + 1 is sealed and
\* unexecuted, it stays unexecuted for good.
C3_DeferredSlotStaysUnexecuted ==
    [][\A s \in Slots :
        (Sealed(Self, s) /\ ~Executed(Self, s)) => ~status_by_slot'[Self][s].is_committed]_vars

----------------------------------------------------------------------------
(* QuorumSpec: _update_sequence and _check_majority on one Status with no
   sealed certificate *)

VoteKinds == {PREPARE, COMMIT}

RecordVote(kind, k, i) ==
    LET st == UpdateSequence(StatusOf(Self, 0), kind, k[1], k[2], i)
    IN /\ status_by_slot' = [status_by_slot EXCEPT ![Self][0] = st]
       /\ has_quorum' = [has_quorum EXCEPT ![kind] = CheckMajority(st, kind)]
       /\ UNCHANGED <<last_commit_slot, next_propose_slot, follow_view, session,
                      next_slot, checkpoint, received_votes_by_ckpt, replies,
                      out, ev, net, vcvars, cvars, steps>>

NextQuorum ==
    \E kind \in VoteKinds : \E k \in KeysIn : \E i \in Nodes : RecordVote(kind, k, i)

QuorumSpec == Init /\ [][NextQuorum]_vars

VotesOf(st, kind) == IF kind = PREPARE THEN st.prepare_msg ELSE st.commit_msg

\* The size of the largest vote set of the kind.
MaxVotes(kind) ==
    LET votes == VotesOf(status_by_slot[Self][0], kind)
    IN CHOOSE n \in 0 .. NumNodes :
           /\ \E k \in Keys : Cardinality(votes[k]) = n
           /\ \A k \in Keys : Cardinality(votes[k]) <= n

----------------------------------------------------------------------------
(* CheckpointSpec: the checkpoint manager of one replica under arbitrary
   votes and synchronisation messages *)

CkptsIn == {<<"a">>, <<"a", "b">>}
CkptVotes == [node_index : Nodes, next_slot : NextSlots, ckpt : CkptsIn]
SyncMsgs == [next_slot : NextSlots, ckpt : CkptsIn]

still == <<out, ev, net, has_quorum, vcvars, cvars, steps>>

OnCkptVote == \E v \in CkptVotes : ReceiveVote(Self, v) /\ UNCHANGED still
OnUpdateCheckpoint == \E j \in SyncMsgs : UpdateCheckpoint(Self, j) /\ UNCHANGED still
OnReceiveSync == \E j \in SyncMsgs : ReceiveSync(Self, j) /\ UNCHANGED still

NextCheckpoint == OnCkptVote \/ OnUpdateCheckpoint \/ OnReceiveSync

CheckpointSpec == Init /\ [][NextCheckpoint]_vars

\* C6: under any interleaving of receive_vote, update_checkpoint and
\* receive_sync, with any next_slot values, next_slot never decreases.
C6_CheckpointMonotonic ==
    [][\A r \in Nodes : next_slot'[r] >= next_slot[r]]_vars

\* The replica stands at a checkpoint and holds a full quorum of votes for
\* another candidate with a lower next_slot.
C6_Witness ==
    \E c \in CkptsIn :
        /\ received_votes_by_ckpt[Self][c].present
        /\ Cardinality(received_votes_by_ckpt[Self][c].from_nodes) >= 2 * F + 1
        /\ received_votes_by_ckpt[Self][c].next_slot < next_slot[Self]
        /\ checkpoint[Self] # c

----------------------------------------------------------------------------
(* WindowSpec: the three per-slot handlers and a moving window, with the
   message handled last and its posts kept *)

PrepareMsgs ==
    {Msg(PREPARE, i, k[1], "", s, k[2]) : i \in Nodes, k \in KeysIn, s \in Slots}

MaxWindowSteps == 2

TickW == steps < MaxWindowSteps /\ steps' = steps + 1
Event(handler, slot) == [handler |-> handler, slot |-> slot]
idle == <<net, has_quorum, vcvars, cvars>>

PrePrepareW ==
    \E m \in PrePrepareMsgs :
        /\ Propose(Self, m) /\ out' = ProposePosts(Self, m)
        /\ ev' = Event("propose", m.slot) /\ TickW /\ UNCHANGED idle
PrepareW ==
    \E m \in PrepareMsgs :
        /\ Commit(Self, m) /\ out' = CommitPosts(Self, m)
        /\ ev' = Event("commit", m.slot) /\ TickW /\ UNCHANGED idle
CommitW ==
    \E m \in CommitMsgs :
        /\ Reply(Self, m) /\ out' = ReplyPosts(Self, m)
        /\ ev' = Event("reply", m.slot) /\ TickW /\ UNCHANGED idle
SyncW ==
    \E j \in SyncMsgs :
        /\ UpdateCheckpoint(Self, j) /\ out' = {}
        /\ ev' = Event("update_checkpoint", 0) /\ TickW /\ UNCHANGED idle

NextWindow == PrePrepareW \/ PrepareW \/ CommitW \/ SyncW

WindowSpec == Init /\ [][NextWindow]_vars

PerSlotHandlers == {"propose", "commit", "reply"}

\* C7: a PRE-PREPARE, PREPARE or COMMIT message for a slot below next_slot
\* or at or above next_slot + 2 * interval changes no state of the replica
\* and causes no post.
C7_WindowEnforcement ==
    [][(/\ ev'.handler \in PerSlotHandlers
        /\ (\/ ev'.slot < next_slot[Self]
            \/ ev'.slot >= next_slot[Self] + 2 * CheckpointInterval))
       => (UNCHANGED rvars /\ out' = {})]_vars

\* A message for a slot that once was legal arrived after the checkpoint had
\* moved past it.
C7_Witness ==
    /\ ev.handler \in PerSlotHandlers
    /\ next_slot[Self] > 0
    /\ ev.slot < next_slot[Self]

----------------------------------------------------------------------------
(* ViewChangeSpec: one ViewChangeVotes accumulator receiving view-change
   votes *)

MaxVcVotes == 3

VcSlots == {0, 1}
VcCertificates == {Certificate(0, "a"), Certificate(1, "b")}

\* prepare_certificates of a vote: NoCert stands for a slot the vote does not
\* list.
VcVotes ==
    [node_index : Nodes, view_number : {1},
     prepare_certificates : [VcSlots -> VcCertificates \cup {NoCert}]]

\* ViewChangeVotes.receive_vote: the certificate built for every listed slot
\* is Certificate(View(0, n)) with the default proposal 0.
ViewChangeReceiveVote(v) ==
    LET prepare_certificate == Certificate(0, "0")
    IN /\ vc_prepare_certificate_by_slot' =
              [s \in Slots |->
                  IF /\ s \in VcSlots
                     /\ v.prepare_certificates[s] # NoCert
                     /\ \/ vc_prepare_certificate_by_slot[s] = NoCert
                        \/ vc_prepare_certificate_by_slot[s].view <
                               prepare_certificate.view
                  THEN prepare_certificate
                  ELSE vc_prepare_certificate_by_slot[s]]
       /\ vc_from_nodes' = vc_from_nodes \cup {v.node_index}

OnViewChangeVote ==
    \E v \in VcVotes :
        /\ Cardinality(vc_votes) < MaxVcVotes
        /\ ViewChangeReceiveVote(v)
        /\ vc_votes' = vc_votes \cup {v}
        /\ UNCHANGED ckpt_votes
        /\ UNCHANGED <<rvars, out, ev, net, has_quorum, steps, cvars>>

NextViewChange == OnViewChangeVote

ViewChangeSpec == Init /\ [][NextViewChange]_vars

\* The certificates the received votes carry for slot s.
CarriedFor(s) ==
    {v.prepare_certificates[s] : v \in vc_votes} \ {NoCert}

\* C4: when a received view-change vote carries a prepare certificate for a
\* slot, the certificate merged for that slot is one of the certificates the
\* votes carry for it, so it holds a certified proposal and never a different
\* or an empty one.
C4_ViewChangeSafety ==
    \A s \in VcSlots :
        CarriedFor(s) # {} =>
            /\ vc_prepare_certificate_by_slot[s] # NoCert
            /\ vc_prepare_certificate_by_slot[s].proposal \in
                   {c.proposal : c \in CarriedFor(s)}

\* What the accumulator does hold: the placeholder of view 0 with proposal 0
\* for every slot some vote lists, and nothing else.
C4_MergedIsPlaceholder ==
    \A s \in VcSlots :
        vc_prepare_certificate_by_slot[s] =
            (IF CarriedFor(s) # {} THEN Certificate(0, "0") ELSE NoCert)

----------------------------------------------------------------------------
(* NetSpec: four correct replicas, one client and the messages in flight.
   No message is lost (loss rate 0). *)

MaxRequests == 2

\* The handler an inbound post runs, by the command of its URL.
HandlerOf(cmd) ==
    IF cmd = PREPARE THEN "propose"
    ELSE IF cmd = COMMIT THEN "commit"
    ELSE "reply"

\* _post: one copy of every post to every node.
Broadcast(posts) == {[to |-> t, cmd |-> p.cmd, msg |-> p.msg] : t \in Nodes, p \in posts}

\* The client posts a request to the leader, which runs get_request.
ClientRequest ==
    \E req \in Proposals :
        /\ next_propose_slot[0] < MaxRequests
        /\ GetRequest(0, req)
        /\ net' = net \cup Broadcast(GetRequestPosts(0, req))
        /\ UNCHANGED <<out, ev, has_quorum, vcvars, cvars, steps>>

\* The handler of post x runs at node x.to; its own posts go in flight.
Handle(x) ==
    IF HandlerOf(x.cmd) = "propose"
    THEN /\ Propose(x.to, x.msg)
         /\ net' = (net \ {x}) \cup Broadcast(ProposePosts(x.to, x.msg))
    ELSE IF HandlerOf(x.cmd) = "commit"
    THEN /\ Commit(x.to, x.msg)
         /\ net' = (net \ {x}) \cup Broadcast(CommitPosts(x.to, x.msg))
    ELSE /\ Reply(x.to, x.msg)
         /\ net' = net \ {x}

\* A post in flight reaches its node.
DeliverPost(x) ==
    /\ x \in net
    /\ Handle(x)
    /\ UNCHANGED <<out, ev, has_quorum, vcvars, cvars, steps>>

DeliverSome == \E x \in net : DeliverPost(x)

NextNet == ClientRequest \/ DeliverSome

FairNetSpec ==
    Init /\ [][NextNet]_vars /\ WF_vars(ClientRequest) /\ WF_vars(DeliverSome)

\* The replicas whose REPLY for the slot reached the client.
Repliers(s) == {r \in Nodes : replies[r][s] > 0}

\* C8: with n = 4, all replicas correct, no loss and fair scheduling, after
\* the client has submitted a request to the leader, eventually all four
\* replicas hold a commit certificate for slot 0 with the requested content
\* and the client has replies of at least f + 1 replicas.
C8_EndToEndLiveness ==
    (next_propose_slot[0] > 0) ~>
        (/\ \A r \in Nodes :
               /\ Sealed(r, 0)
               /\ status_by_slot[r][0].commit_certificate.proposal =
                      status_by_slot[0][0].request
         /\ Cardinality(Repliers(0)) >= F + 1)

\* What the replicas do reach: no replica other than the leader ever creates
\* a record for a slot, and nobody holds any certificate.
C8_PrePrepareDiesAtFirstHop ==
    /\ \A r \in Nodes \ {0} : \A s \in Slots : ~status_by_slot[r][s].present
    /\ \A r \in Nodes : \A s \in Slots :
           /\ status_by_slot[r][s].prepare_certificate = NoCert
           /\ status_by_slot[r][s].commit_certificate = NoCert

----------------------------------------------------------------------------
(* ByzantineSpec: replicas 0, 1 and 2 are correct, replica 3 posts arbitrary
   well-formed messages under its own index to any node and any command *)

MaxByzantinePosts == 3

Byzantine == NumNodes - 1
Correct == Nodes \ {Byzantine}

ByzantineMsgs ==
    {Msg(t, Byzantine, k[1], "", 0, k[2]) :
        t \in {"preprepare", PREPARE, COMMIT}, k \in KeysIn}

ByzantinePost ==
    \E to \in {1, 2} : \E cmd \in {PREPARE, COMMIT, REPLY} : \E m \in ByzantineMsgs :
        /\ steps < MaxByzantinePosts
        /\ steps' = steps + 1
        /\ Handle([to |-> to, cmd |-> cmd, msg |-> m])
        /\ UNCHANGED <<out, ev, has_quorum, vcvars, cvars>>

\* Posts in flight to the Byzantine replica are left out: what it receives
\* changes nothing it may send.
DeliverCorrect == \E x \in net : x.to \in Correct /\ DeliverPost(x)

NextByzantine == ByzantinePost \/ DeliverCorrect

ByzantineSpec == Init /\ [][NextByzantine]_vars

\* C1: if two correct replicas both hold a sealed commit certificate for a
\* slot, the two certificates carry the same proposal.
C1_Agreement ==
    \A r1 \in Correct : \A r2 \in Correct : \A s \in Slots :
        (Sealed(r1, s) /\ Sealed(r2, s)) =>
            status_by_slot[r1][s].commit_certificate.proposal =
                status_by_slot[r2][s].commit_certificate.proposal

\* Under authenticated senders no correct replica ever seals a commit
\* certificate: the only parseable votes are those of the Byzantine replica,
\* one per key.
C1_NoCorrectReplicaSeals ==
    \A r \in Correct : \A s \in Slots : ~Sealed(r, s)

----------------------------------------------------------------------------
(* ReplySpec: the client's get_reply under arbitrary replies, fresh or
   stale, and new attempts of the request *)

MaxReplies == 4

ClientReplies ==
    {[index |-> i, view |-> k[1], proposal |-> k[2]] : i \in Nodes, k \in ClientKeys}

rest == <<rvars, out, net, has_quorum, vcvars>>

OnGetReply ==
    \E rep \in ClientReplies : \E stale \in BOOLEAN :
        /\ steps < MaxReplies
        /\ steps' = steps + 1
        /\ client' = GetReply(client, rep, stale)
        /\ ev' = [handler |-> "get_reply", reply |-> rep, stale |-> stale]
        /\ UNCHANGED <<rest, certificate, clock, returned>>

OnSend ==
    /\ client.pc \in {"sleep", "retry"}
    /\ client' = Send(client)
    /\ UNCHANGED <<rest, ev, steps, certificate, clock, returned>>

\* The post failed and the next attempt is under way: lines 234-235 and 230.
OnResend ==
    /\ client.pc = "post"
    /\ client' = [client EXCEPT !.reply_msgs = NoReplies,
                                !.is_request_succeed = FALSE]
    /\ UNCHANGED <<rest, ev, steps, certificate, clock, returned>>

NextReply == OnGetReply \/ OnSend \/ OnResend

ReplySpec == Init /\ [][NextReply]_vars

----------------------------------------------------------------------------
(* ClientSpec: the loop of Client.request with posts that return or raise,
   and replies arriving in between *)

LoopReplies == {[index |-> i, view |-> 0, proposal |-> "a"] : i \in Nodes}

cframe == <<rest, ev, steps, certificate, clock, returned>>

\* The awaited post returns.
OnPostSucceeded ==
    /\ client.pc = "post"
    /\ client' = PostSucceeded(client)
    /\ UNCHANGED cframe

\* The awaited post raises (refused or timed out).
OnPostFailed ==
    /\ client.pc = "post"
    /\ client.escalations < MaxEscalations
    /\ client' = PostFailed(client)
    /\ UNCHANGED cframe

OnLoopReply ==
    \E rep \in LoopReplies :
        /\ client' = GetReply(client, rep, FALSE)
        /\ UNCHANGED cframe

NextClient == OnSend \/ OnPostSucceeded \/ OnPostFailed \/ OnLoopReply

ClientSpec == Init /\ [][NextClient]_vars

\* C12: the client leaves request i, for request i + 1 or for the end, only
\* when f + 1 matching replies for it have been observed.
C12_MovesOnOnlyAfterSuccess ==
    [][client'.i # client.i => client.is_request_succeed]_vars

\* What the loop does: it leaves request i exactly when the post returns.
C12_MovesOnWhenPosted ==
    [][client'.i # client.i <=> (client.pc = "post" /\ client'.pc \in {"sleep", "done"})]_vars

\* C13: an escalation happens exactly at the retry_times-th consecutive
\* failure; it sends one VIEW_CHANGE_REQUEST to every replica, resets the
\* failure count to 0 and moves the target to (target + 1) mod n.
C13_ClientEscalation ==
    [][/\ client'.escalations # client.escalations <=>
              /\ client.pc = "post" /\ client'.i = client.i
              /\ client'.accumulate_failure # client.accumulate_failure
              /\ client.accumulate_failure = RetryTimes - 1
       /\ client'.escalations # client.escalations =>
              /\ \A r \in Nodes : client'.vc_requests[r] = client.vc_requests[r] + 1
              /\ client'.accumulate_failure = 0
              /\ client'.dest_ind = (client.dest_ind + 1) % NumNodes
      ]_vars

\* What the escalation does: the count, the rotation, and n posts to
\* replica 1.
C13_EscalationPostsToReplicaOne ==
    [][client'.escalations # client.escalations =>
          /\ client.accumulate_failure = RetryTimes - 1
          /\ client'.accumulate_failure = 0
          /\ client'.dest_ind = (client.dest_ind + 1) % NumNodes
          /\ client'.vc_requests =
                 [client.vc_requests EXCEPT ![1] = @ + NumNodes]
      ]_vars

----------------------------------------------------------------------------
(* ViewSpec: one View, held by a Certificate, under calls of set_view and
   dumps_from_dict at arbitrary times *)

vframe == <<rest, steps, client>>

Elapse ==
    \E d \in {1, VIEW_SET_INTERVAL - 1} :
        /\ clock + d <= MaxClock
        /\ clock' = clock + d
        /\ UNCHANGED <<vframe, ev, certificate, returned>>

OnSetView ==
    \E v \in ViewsIn :
        /\ certificate' = SetView(certificate, v, clock)
        /\ returned' = SetViewReturns(certificate, clock)
        /\ ev' = Event("set_view", v)
        /\ UNCHANGED <<vframe, clock>>

OnDumpsFromDict ==
    \E dictionary \in [view : ViewsIn, proposal : Proposals] :
        /\ certificate' = DumpsFromDict(certificate, dictionary, clock)
        /\ returned' = SetViewReturns(certificate, clock)
        /\ ev' = Event("dumps_from_dict", dictionary.view)
        /\ UNCHANGED <<vframe, clock>>

NextView == Elapse \/ OnSetView \/ OnDumpsFromDict

ViewSpec == Init /\ [][NextView]_vars

\* C14: the view number of a View never decreases, whether set_view is
\* called directly or through dumps_from_dict.
C14_ViewMonotonic ==
    [][certificate'.view_num >= certificate.view_num]_vars

\* C15: set_view(v) changes the view only if at least VIEW_SET_INTERVAL has
\* passed since the last change; otherwise it reports failure and leaves view
\* number, leader and last set time as they are; on success it reports
\* success and sets the leader to v mod n.
C15_ViewRateLimit ==
    [][clock' = clock /\ ev'.handler = "set_view" =>
         IF clock - certificate.last_set_time >= VIEW_SET_INTERVAL
         THEN /\ returned' = "True"
              /\ certificate'.view_num = ev'.slot
              /\ certificate'.leader = ev'.slot % NumNodes
              /\ certificate'.last_set_time = clock
         ELSE /\ returned' = "False"
              /\ certificate' = certificate
      ]_vars

\* What set_view does: the limit, the assignments, and None for success.
C15_RateLimitReturnsNone ==
    [][clock' = clock /\ ev'.handler = "set_view" =>
         IF clock - certificate.last_set_time >= VIEW_SET_INTERVAL
         THEN /\ returned' = "None"
              /\ certificate'.view_num = ev'.slot
              /\ certificate'.leader = ev'.slot % NumNodes
              /\ certificate'.last_set_time = clock
         ELSE /\ returned' = "False"
              /\ certificate' = certificate
      ]_vars

----------------------------------------------------------------------------
(* SlotSpec: commit() and reply() of one replica on one slot.  A handler
   takes the kind of the vote from the 'type' field of the message (lines
   641, 689-692), and the source posts PREPARE and COMMIT messages to one and
   the same command (lines 606, 653): either handler is given votes of either
   kind. *)

MaxSlotSteps == 4

VoteMsgs ==
    {Msg(t, i, k[1], "", 0, k[2]) : t \in VoteKinds, i \in Nodes, k \in KeysIn}

TickS == steps < MaxSlotSteps /\ steps' = steps + 1
sframe == <<ev, net, has_quorum, vcvars, cvars>>

OnPrepareVote ==
    \E m \in VoteMsgs :
        /\ Commit(Self, m) /\ out' = CommitPosts(Self, m)
        /\ TickS /\ UNCHANGED sframe

OnCommitVote ==
    \E m \in VoteMsgs :
        /\ Reply(Self, m) /\ out' = ReplyPosts(Self, m)
        /\ TickS /\ UNCHANGED sframe

NextSlot == OnPrepareVote \/ OnCommitVote

SlotSpec == Init /\ [][NextSlot]_vars

CertKey(cert) == <<cert.view, cert.proposal>>

\* C16: a slot with a sealed commit certificate has a sealed prepare
\* certificate, and an executed slot has a sealed commit certificate.
C16_SlotLifecycleOrder ==
    \A s \in Slots :
        LET st == status_by_slot[Self][s]
        IN /\ st.commit_certificate # NoCert => st.prepare_certificate # NoCert
           /\ st.is_committed => st.commit_certificate # NoCert

\* The half of C16 that holds.
C16_ExecutedIsSealed ==
    \A s \in Slots : Executed(Self, s) => Sealed(Self, s)

\* C17: a sealed commit certificate (v, p) has COMMIT votes of at least
\* 2f + 1 distinct replicas for exactly (v, p) in the slot's record, and a
\* REPLY was sent only for a slot sealed this way.
C17_CommitSealNeedsQuorum ==
    \A s \in Slots :
        LET st == status_by_slot[Self][s]
        IN /\ st.commit_certificate # NoCert =>
                  Cardinality(st.commit_msg[CertKey(st.commit_certificate)]) >= 2 * F + 1
           /\ replies[Self][s] > 0 =>
                  /\ st.commit_certificate # NoCert
                  /\ Cardinality(st.commit_msg[CertKey(st.commit_certificate)]) >= 2 * F + 1

\* C18: a sealed prepare certificate (v, p) has PREPARE votes of at least
\* 2f + 1 distinct replicas for exactly (v, p), and every COMMIT the replica
\* broadcasts is for a (v, p) with such a quorum.
C18_PrepareSealNeedsQuorum ==
    /\ \A s \in Slots :
           LET st == status_by_slot[Self][s]
           IN st.prepare_certificate # NoCert =>
                  Cardinality(st.prepare_msg[CertKey(st.prepare_certificate)]) >= 2 * F + 1
    /\ \A p \in out :
           p.msg.type = COMMIT =>
               Cardinality(status_by_slot[Self][p.msg.slot].prepare_msg[
                               <<p.msg.view, p.msg.proposal>>]) >= 2 * F + 1

\* C19: a sealed prepare certificate is never replaced.
C19_PrepareCertificateImmutable ==
    [][\A s \in Slots :
           status_by_slot[Self][s].prepare_certificate # NoCert =>
               status_by_slot'[Self][s].prepare_certificate =
                   status_by_slot[Self][s].prepare_certificate]_vars

----------------------------------------------------------------------------
(* VoteSpec: _update_sequence on one Status, with the proposals as they
   come off the wire *)

MaxVotesCast == 4

\* A proposal is a JSON object; two objects of equal content may list their
\* fields in different orders.
FieldOrders == {1, 2}
WireProposals == [content : Proposals, order : FieldOrders]

\* json.dumps(proposal, sort_keys=True) of line 113 (sort_keys=true in the
\* source, read as True): the text does not depend on the order of the
\* fields.  md5 is taken as giving different digests for different texts.
CanonicalJson(proposal) == proposal.content

\* The voters: 2f + 1 replicas, enough for a quorum.
Voters == 0 .. 2 * F

WireVotes ==
    [kind : VoteKinds, view : Views, proposal : WireProposals, index : Voters]

VotedKeys == {<<0, "a">>, <<1, "a">>, <<0, "b">>}

CastVote ==
    \E v \in WireVotes :
        /\ <<v.view, v.proposal.content>> \in VotedKeys
        /\ steps < MaxVotesCast
        /\ steps' = steps + 1
        /\ status_by_slot' =
               [status_by_slot EXCEPT ![Self][0] =
                   UpdateSequence(StatusOf(Self, 0), v.kind, v.view,
                                  CanonicalJson(v.proposal), v.index)]
        /\ ev' = [handler |-> "_update_sequence", vote |-> v]
        /\ UNCHANGED <<last_commit_slot, next_propose_slot, follow_view, session,
                       next_slot, checkpoint, received_votes_by_ckpt, replies,
                       out, net, has_quorum, vcvars, cvars>>

NextVote == CastVote

VoteSpec == Init /\ [][NextVote]_vars

\* C20: a vote is recorded in the set of its own (view, content) and in no
\* other: votes for other contents or other views of the slot stay in their
\* own sets, and votes of equal content land in one set whatever the order of
\* the fields and whoever sent them; so a set holds 2f + 1 replicas only if
\* 2f + 1 distinct replicas voted for that (view, content).
C20_VotesPerViewAndContent ==
    [][steps' = steps + 1 /\ ev'.handler = "_update_sequence" =>
         LET v == ev'.vote
             key == <<v.view, v.proposal.content>>
             other == IF v.kind = PREPARE THEN COMMIT ELSE PREPARE
             before == status_by_slot[Self][0]
             after == status_by_slot'[Self][0]
         IN /\ VotesOf(after, v.kind)[key] = VotesOf(before, v.kind)[key] \cup {v.index}
            /\ \A k \in Keys \ {key} :
                   VotesOf(after, v.kind)[k] = VotesOf(before, v.kind)[k]
            /\ VotesOf(after, other) = VotesOf(before, other)
      ]_vars

\* Three replicas voted for one content in one view, with both field
\* orders; the same content in the other view was voted for too, and its
\* set stayed apart.
C20_Witness ==
    /\ ev.handler = "_update_sequence"
    /\ ev.vote.proposal.order = 2
    /\ Cardinality(status_by_slot[Self][0].prepare_msg[<<0, "a">>]) = 2 * F + 1
    /\ Cardinality(status_by_slot[Self][0].prepare_msg[<<1, "a">>]) = 1

\* The vote sets of the slot hold this many entries in all.
VotesRecorded ==
    LET st == status_by_slot[Self][0]
        Sum(votes) == Cardinality({<<k, i>> \in Keys \X Nodes : i \in votes[k]})
    IN Sum(st.prepare_msg) + Sum(st.commit_msg)

\* C21: a vote (kind, view, proposal, sender) that is already recorded is
\* absorbed: recording it again leaves the record of the slot as it was, so a
\* replica replaying its vote counts once in the set of that key.
C21_VoteRecordingIdempotent ==
    [][steps' = steps + 1 /\ ev'.handler = "_update_sequence" =>
         LET v == ev'.vote
             key == <<v.view, v.proposal.content>>
             before == status_by_slot[Self][0]
             after == status_by_slot'[Self][0]
             again == UpdateSequence(after, v.kind, v.view,
                                     CanonicalJson(v.proposal), v.index)
         IN /\ v.index \in VotesOf(before, v.kind)[key] => after = before
            /\ again = after
            /\ Cardinality(VotesOf(after, v.kind)[key] \cap {v.index}) = 1
      ]_vars

\* Two replicas cast all the votes of the run for one key, replaying them:
\* the set holds the two of them and nothing else was recorded.
C21_Witness ==
    /\ steps = MaxVotesCast
    /\ VotesRecorded = 2
    /\ status_by_slot[Self][0].prepare_msg[<<0, "a">>] = {0, 1}
    /\ ev.handler = "_update_sequence"
    /\ ev.vote.index = 0

----------------------------------------------------------------------------
(* StaleSpec: the three per-slot handlers of one replica under messages of
   the replica's view and of a lower one.  No statement of the source
   assigns _follow_view after line 426, so the views below it are the
   negative ones. *)

MaxStaleSteps == 4

StaleViews == {-1, 0}
StaleSlots == {0, 1}

StalePrePrepares ==
    {Msg("preprepare", 0, v, "", s, "a") : v \in StaleViews, s \in StaleSlots}
StalePrepares ==
    {Msg(PREPARE, i, v, "", s, "a") : i \in Voters, v \in StaleViews, s \in StaleSlots}
StaleCommits ==
    {Msg(COMMIT, i, v, "", s, "a") : i \in Voters, v \in StaleViews, s \in StaleSlots}

Handled(handler, m) ==
    [handler |-> handler, slot |-> m.slot, view |-> m.view, index |-> m.index]

TickT == steps < MaxStaleSteps /\ steps' = steps + 1

ProposeT ==
    \E m \in StalePrePrepares :
        /\ Propose(Self, m) /\ out' = ProposePosts(Self, m)
        /\ ev' = Handled("propose", m) /\ TickT /\ UNCHANGED idle
CommitT ==
    \E m \in StalePrepares :
        /\ Commit(Self, m) /\ out' = CommitPosts(Self, m)
        /\ ev' = Handled("commit", m) /\ TickT /\ UNCHANGED idle
ReplyT ==
    \E m \in StaleCommits :
        /\ Reply(Self, m) /\ out' = ReplyPosts(Self, m)
        /\ ev' = Handled("reply", m) /\ TickT /\ UNCHANGED idle

NextStale == ProposeT \/ CommitT \/ ReplyT

StaleSpec == Init /\ [][NextStale]_vars

\* C22: a PRE-PREPARE, PREPARE or COMMIT message whose view is lower than the
\* replica's follow view changes no state of the replica (no record made, no
\* vote recorded, no certificate set) and causes no post.
C22_StaleMessagesDropped ==
    [][(/\ steps' = steps + 1
        /\ ev'.handler \in PerSlotHandlers
        /\ ev'.view < follow_view[Self])
       => (UNCHANGED rvars /\ out' = {})]_vars

\* Two replicas' COMMIT votes of the current view are recorded for slot 0, and
\* the third replica's COMMIT, which would complete the quorum, came with a
\* lower view.
C22_Witness ==
    /\ status_by_slot[Self][0].commit_msg[<<0, "a">>] = {0, 1}
    /\ ev.handler = "reply"
    /\ ev.slot = 0
    /\ ev.index = 2
    /\ ev.view < follow_view[Self]
    /\ ~Sealed(Self, 0)

----------------------------------------------------------------------------
(* RequestSpec: get_request at every replica, under the client's requests *)

MaxRequestSteps == 4

\* PBFTHandler._leader: set to 0 at line 422 and never assigned again.
LeaderOf(r) == 0

\* What get_request answers: the redirect of line 561 (line 563 when no
\* leader is known), or OK.
GetRequestResponse(r) ==
    IF ~IsLeader(r)
    THEN "redirect to " \o ToString(LeaderOf(r))
    ELSE "OK"

OnRequest ==
    \E r \in Nodes : \E req \in Proposals :
        /\ steps < MaxRequestSteps
        /\ next_propose_slot[r] \in Slots
        /\ steps' = steps + 1
        /\ GetRequest(r, req)
        /\ out' = GetRequestPosts(r, req)
        /\ ev' = [handler |-> "get_request", node |-> r, request |-> req,
                  response |-> GetRequestResponse(r)]
        /\ UNCHANGED idle

NextRequest == OnRequest

RequestSpec == Init /\ [][NextRequest]_vars

\* C23: a leader gives the request the slot next_propose_slot and moves
\* next_propose_slot on by one, so the slots are given in increasing order
\* without gaps and none twice; it stores the request in the record of that
\* slot and broadcasts one PRE-PREPARE that carries that slot number and the
\* leader's view.  A replica that is not the leader changes nothing, posts
\* nothing and redirects to the leader.
C23_ClientRequestHandling ==
    [][steps' = steps + 1 /\ ev'.handler = "get_request" =>
         LET r == ev'.node
             this_slot == next_propose_slot[r]
         IN IF IsLeader(r)
            THEN /\ next_propose_slot'[r] = this_slot + 1
                 /\ status_by_slot'[r][this_slot].present
                 /\ status_by_slot'[r][this_slot].request = ev'.request
                 /\ out' = {Post(PREPARE, Msg("preprepare", r, ViewOf(r), "",
                                              this_slot, ev'.request))}
            ELSE /\ UNCHANGED rvars
                 /\ out' = {}
                 /\ ev'.response = "redirect to 0"
      ]_vars

\* What holds of the PRE-PREPARE: it is one message with the leader's view
\* and the request, filed in its 'proposal' under the text this_slot instead
\* of the slot number; everything else of C23 holds.
C23_PrePrepareFiledUnderLiteralKey ==
    [][steps' = steps + 1 /\ ev'.handler = "get_request" =>
         LET r == ev'.node
             this_slot == next_propose_slot[r]
         IN IF IsLeader(r)
            THEN /\ next_propose_slot'[r] = this_slot + 1
                 /\ status_by_slot'[r][this_slot].present
                 /\ status_by_slot'[r][this_slot].request = ev'.request
                 /\ \E p \in out' :
                        /\ out' = {p}
                        /\ p.cmd = PREPARE
                        /\ p.msg.type = "preprepare"
                        /\ p.msg.view = ViewOf(r)
                        /\ p.msg.proposal = ev'.request
                        /\ p.msg.key = "this_slot"
            ELSE /\ UNCHANGED rvars
                 /\ out' = {}
                 /\ ev'.response = "redirect to 0"
      ]_vars

----------------------------------------------------------------------------
(* CkptVoteSpec: receive_vote of one replica under arbitrary checkpoint
   votes, with the votes received kept *)

MaxCkptVotes == 4

VotedNextSlots == {CheckpointInterval, 2 * CheckpointInterval}
HeardVotes == [node_index : Nodes, next_slot : VotedNextSlots, ckpt : CkptsIn]

OnCkptVoteHeard ==
    \E v \in HeardVotes :
        /\ steps < MaxCkptVotes
        /\ steps' = steps + 1
        /\ ReceiveVote(Self, v)
        /\ ckpt_votes' = ckpt_votes \cup {v}
        /\ ev' = [handler |-> "receive_vote", vote |-> v]
        /\ UNCHANGED <<out, net, has_quorum, vc_from_nodes,
                       vc_prepare_certificate_by_slot, vc_votes, cvars>>

NextCkptVote == OnCkptVoteHeard

CkptVoteSpec == Init /\ [][NextCkptVote]_vars

\* The replicas that voted for the candidate with the next_slot.
VotersFor(votes, ns, ckpt) ==
    {v.node_index : v \in {w \in votes : w.next_slot = ns /\ w.ckpt = ckpt}}

\* C24: receive_vote replaces the checkpoint only by a pair (next_slot,
\* candidate) that at least 2f + 1 distinct replicas voted for, with that
\* candidate and that next_slot, and whose next_slot is greater than the
\* current one; next_slot and the stored prefix are replaced together.  With
\* n = 4 one arbitrary voter is among the senders, so f Byzantine voters
\* cannot bring about a pair no quorum voted for.
C24_CheckpointAdoptionByVote ==
    [][(next_slot'[Self] # next_slot[Self] \/ checkpoint'[Self] # checkpoint[Self]) =>
         /\ next_slot'[Self] > next_slot[Self]
         /\ Cardinality(VotersFor(ckpt_votes', next_slot'[Self], checkpoint'[Self]))
                >= 2 * F + 1
      ]_vars

\* What holds: the adopted candidate has votes of 2f + 1 distinct replicas,
\* whatever next_slot each of them named, and the adopted next_slot is the
\* one named by the first vote received for the candidate.
C24_AdoptsFirstNamedNextSlot ==
    [][(next_slot'[Self] # next_slot[Self] \/ checkpoint'[Self] # checkpoint[Self]) =>
         LET c == checkpoint'[Self]
         IN /\ next_slot'[Self] > next_slot[Self]
            /\ Cardinality({v.node_index : v \in {w \in ckpt_votes' : w.ckpt = c}})
                   >= 2 * F + 1
            /\ received_votes_by_ckpt'[Self][c].next_slot = next_slot'[Self]
            /\ received_votes_by_ckpt[Self][c].present =>
                   received_votes_by_ckpt[Self][c].next_slot = next_slot'[Self]
      ]_vars

\* C26: when a replica has adopted a checkpoint with next_slot N, it holds no
\* ReceiveVotes record with a next_slot of N or less.
C26_CheckpointVoteGarbageCollection ==
    [][next_slot'[Self] # next_slot[Self] =>
         \A c \in Ckpts :
             received_votes_by_ckpt'[Self][c].present =>
                 received_votes_by_ckpt'[Self][c].next_slot > next_slot'[Self]
      ]_vars

\* What holds: no record is ever removed or emptied.
C26_RecordsAreKept ==
    [][\A c \in Ckpts :
         received_votes_by_ckpt[Self][c].present =>
             /\ received_votes_by_ckpt'[Self][c].present
             /\ received_votes_by_ckpt[Self][c].from_nodes \subseteq
                    received_votes_by_ckpt'[Self][c].from_nodes
      ]_vars

----------------------------------------------------------------------------
(* The checkpoint proposal of reply (lines 709-712), under SlotSpec *)

\* C25: a replica broadcasts a checkpoint vote exactly when an execution
\* makes (last_commit_slot + 1) % interval = 0; the vote names next_slot +
\* interval and, as candidate, the checkpoint followed by the decisions of
\* the slots from next_slot to last_commit_slot in slot order.
C25_CheckpointProposal ==
    [][LET last == last_commit_slot'[Self]
           crossed == /\ last # last_commit_slot[Self]
                      /\ (last + 1) % CheckpointInterval = 0
           candidate == checkpoint[Self] \o
                            GetCommitDecisions(Self, status_by_slot'[Self], last)
           votes == {p \in out' : p.cmd = RECEIVE_CKPT_VOTE}
       IN votes = (IF crossed
                   THEN {Post(RECEIVE_CKPT_VOTE, CheckpointVoteMsg(Self, candidate))}
                   ELSE {})
      ]_vars

\* What holds: no checkpoint vote is ever among the posts of a handler.
C25_NoCheckpointVoteLeaves ==
    \A p \in out : p.cmd # RECEIVE_CKPT_VOTE

----------------------------------------------------------------------------
(* The merge of ViewChangeVotes.receive_vote, under ViewChangeSpec *)

\* C27: after any sequence of view-change votes, the certificate kept for a
\* slot is the one of the highest view among the prepare certificates the
\* votes carried for that slot, with that certificate's view and proposal;
\* a slot no vote lists has none.
C27_ViewChangeMerge ==
    \A s \in VcSlots :
        LET kept == vc_prepare_certificate_by_slot[s]
        IN IF CarriedFor(s) = {}
           THEN kept = NoCert
           ELSE /\ kept \in CarriedFor(s)
                /\ \A c \in CarriedFor(s) : c.view <= kept.view

----------------------------------------------------------------------------
(* The voters of a prospective view and the leader *)

\* C28: a replica leads a prospective view v only if it is replica v mod n
\* and at least 2f + 1 distinct replicas voted for v.  No statement of the
\* source reads from_nodes or assigns _is_leader, _leader or _view after
\* __init__, so what can be stated of the source is the two facts below.

\* Under ViewChangeSpec: from_nodes holds each voter once, however often it
\* voted.
C28_VotersCountedOnce ==
    vc_from_nodes = {v.node_index : v \in vc_votes}

\* Under RequestSpec: every PRE-PREPARE is posted by replica 0 in view 0.
C28_OnlyInitialLeaderProposes ==
    \A p \in out :
        p.msg.type = "preprepare" => (p.msg.index = 0 /\ p.msg.view = 0)

----------------------------------------------------------------------------
(* EquivocationSpec: propose() of one replica under PRE-PREPARE messages
   that may name different proposals for one view and slot; the PREPARE
   posts it makes are kept in flight *)

MaxPrePrepares == 3

ConflictingPrePrepares ==
    {Msg("preprepare", 0, v, "", s, p) : v \in Views, s \in StaleSlots, p \in Proposals}

OnConflictingPrePrepare ==
    \E m \in ConflictingPrePrepares :
        /\ steps < MaxPrePrepares
        /\ steps' = steps + 1
        /\ Propose(Self, m)
        /\ out' = ProposePosts(Self, m)
        /\ net' = net \cup Broadcast(ProposePosts(Self, m))
        /\ ev' = [handler |-> "propose", slot |-> m.slot, view |-> m.view,
                  proposal |-> m.proposal]
        /\ UNCHANGED <<has_quorum, vcvars, cvars>>

NextEquivocation == OnConflictingPrePrepare

EquivocationSpec == Init /\ [][NextEquivocation]_vars

\* The PREPARE messages the replica has broadcast.
PreparesBroadcast == {x.msg : x \in {y \in net : y.msg.type = PREPARE /\ y.msg.index = Self}}

\* C29: for each (view, slot) the replica broadcasts PREPARE for at most
\* one proposal: a second PRE-PREPARE for the same view and slot with another
\* proposal gets no PREPARE.
C29_NoEquivocation ==
    \A m1 \in PreparesBroadcast : \A m2 \in PreparesBroadcast :
        (m1.view = m2.view /\ m1.slot = m2.slot) => m1.proposal = m2.proposal

\* What holds: every PRE-PREPARE of a view not below the follow view and of
\* a slot in the window gets its PREPARE, whatever was proposed before.
C29_EveryPrePrepareIsEchoed ==
    [][steps' = steps + 1 /\ ev'.handler = "propose" =>
         out' = (IF ev'.view < follow_view[Self] \/ ~LegalSlot(Self, ev'.slot)
                 THEN {}
                 ELSE {Post(COMMIT, Msg(PREPARE, Self, ev'.view, "slot", ev'.slot,
                                        ev'.proposal))})
      ]_vars

----------------------------------------------------------------------------
(* FrontierSpec: reply() of one replica under COMMIT votes for three slots,
   while update_checkpoint moves the checkpoint *)

MaxFrontierSteps == 7

FrontierCommits ==
    {Msg(COMMIT, i, 0, "", s, "a") : i \in Voters, s \in Slots}
FrontierSyncs ==
    {[next_slot |-> 1, ckpt |-> <<"a">>], [next_slot |-> 2, ckpt |-> <<"a", "b">>]}

TickF == steps < MaxFrontierSteps /\ steps' = steps + 1

CommitF ==
    \E m \in FrontierCommits :
        /\ Reply(Self, m) /\ out' = ReplyPosts(Self, m)
        /\ ev' = Event("reply", m.slot) /\ TickF /\ UNCHANGED idle
SyncF ==
    \E j \in FrontierSyncs :
        /\ UpdateCheckpoint(Self, j) /\ out' = {}
        /\ ev' = Event("update_checkpoint", 0) /\ TickF /\ UNCHANGED idle

NextFrontier == CommitF \/ SyncF

FrontierSpec == Init /\ [][NextFrontier]_vars

----------------------------------------------------------------------------
(* The checkpoint vote and the commit frontier, under FrontierSpec *)

\* The vote that reply hands to propose_vote and _broadcast_checkpoint when
\* the step from the unprimed to the primed state executes a slot (lines
\* 707-711, 230, 268-273).
VoteBuilt ==
    CheckpointVoteMsg(Self,
        checkpoint[Self] \o
            GetCommitDecisions(Self, status_by_slot'[Self], last_commit_slot'[Self]))

\* An execution that makes (last_commit_slot + 1) % interval = 0.
CrossesBoundary ==
    /\ last_commit_slot'[Self] # last_commit_slot[Self]
    /\ (last_commit_slot'[Self] + 1) % CheckpointInterval = 0

C31_ConsistentAtFirstBoundary ==
    [][(/\ CrossesBoundary
        /\ Len(checkpoint[Self]) = next_slot[Self]
        /\ last_commit_slot'[Self] + 1 = next_slot[Self] + CheckpointInterval)
       => VoteBuilt.next_slot = Len(VoteBuilt.ckpt)]_vars

\* C32: the commit frontier keeps up with the checkpoint, last_commit_slot >=
\* next_slot - 1, so that slot next_slot can be executed when it reaches its
\* commit quorum.
C32_CatchUpKeepsFrontier ==
    last_commit_slot[Self] >= next_slot[Self] - 1

\* What holds: once the checkpoint is ahead of the frontier, no slot is
\* ever executed again.
C32_StuckBehindCheckpoint ==
    [][last_commit_slot[Self] < next_slot[Self] - 1 =>
         /\ last_commit_slot'[Self] = last_commit_slot[Self]
         /\ last_commit_slot'[Self] < next_slot'[Self] - 1
         /\ \A s \in Slots :
                status_by_slot'[Self][s].is_committed = status_by_slot[Self][s].is_committed
      ]_vars

====
